---- MODULE Spec2Model ----
(***************************************************************************)
(* A model of ipv6_in_real_life/data_structures.py: the Source tree        *)
(* (country -> category -> entity -> host), its ingestion from JSON        *)
(* records, and the asyncio resolution of the whole tree.                  *)
(*                                                                         *)
(* Python objects are records, dicts are functions over the set of their   *)
(* keys, lists and tuples are sequences, and None is the string "None".    *)
(* An object is named by its place in the tree: an entity by               *)
(* <<country, category, index>>, a host by <<country, category, index, j>> *)
(* with j = 0 for main_host and j >= 1 for additional_hosts[j]; nothing is *)
(* ever removed from the tree, so a place names one object for ever.       *)
(*                                                                         *)
(* The caller is one logical thread: it calls extend_from_json, or awaits  *)
(* resolve_all, and does nothing else while that await is pending.  The    *)
(* only suspension points are the two resolver.query awaits of             *)
(* Host.resolve and the two asyncio.gather awaits.                         *)
(***************************************************************************)
EXTENDS Integers, Sequences, FiniteSets, TLC

VARIABLES
    countries_data,  \* Source.countries_data
    last_resolved,   \* Source.last_resolved
    ingested,        \* history: the records extend_from_json has registered, in order
    all_pc,          \* where Source.resolve_all stands: "idle", "gather" or "raised"
    calls,           \* how many resolve_all calls were made: the clock of datetime.now()
    entity_pc,       \* entity -> where its Entity.resolve task stands
    host_call,       \* host -> the frame of its Host.resolve call: position and query results
    metrics,         \* the four counters of observability.Metrics
    report,          \* what the last read of a Category's properties returned
    raised,          \* the exception the last extend_from_json call ended with, if any
    queries,         \* history: how often the current resolve_all queried each (host, type)
    stalled,         \* the resolver's side: the hosts whose pending query is never answered
    limit            \* how many entities the bounded variant of resolve_all runs at a time

vars == <<countries_data, last_resolved, ingested, all_pc, calls, entity_pc,
          host_call, metrics, report, raised, queries, stalled, limit>>

\* Python's None, True and False: an Optional[bool] field holds one of the three.
None == "None"
True == "True"
False == "False"
bool(b) == IF b THEN True ELSE False
KeyError == "KeyError"
DNSError == "DNSError"
ZeroDivisionError == "ZeroDivisionError"

\* The catalog fed to the Source names at most MaxHosts hosts in all.
MaxHosts == 3
\* extend_from_json is given at most MaxBatch records per call.
MaxBatch == 2
\* resolve_all is called at most MaxResolveAll times.
MaxResolveAll == 2
\* All the resolve_all calls together make at most MaxLookups Host.resolve calls.
MaxLookups == 3
\* A Category built directly holds at most MaxEntities entities.
MaxEntities == 8

EmptyDict == [k \in {} |-> None]

\* d[key] = value, as a Python dict assignment
DictSet(d, key, value) ==
    [k \in DOMAIN d \cup {key} |-> IF k = key THEN value ELSE d[k]]

---------------------------------------------------------------------------
(* The inputs: JSON records and resolver answers *)

JsonEntities ==
    { [country |-> "it", category |-> "bank", main_host |-> "a.example"],
      [country |-> "it", category |-> "bank", name |-> "B",
       main_host |-> "b.example", additional_hosts |-> <<"a.example">>],
      [country |-> "it", category |-> "isp", main_host |-> "a.example",
       additional_hosts |-> <<"b.example", "a.example">>],
      [country |-> "xx", category |-> "bank", main_host |-> "b.example",
       additional_hosts |-> <<"c.example">>],
      [country |-> "it", main_host |-> "c.example"],
      [country |-> "de", category |-> "bank"],
      [category |-> "isp", main_host |-> "a.example"] }

\* Any n records or fewer
JsonSequences(n) ==
    UNION {[1..k -> JsonEntities] : k \in 0..n}

\* The end of an awaited resolver.query: it raises DNSError or returns the
\* hosts of the answer's records.
Raise(error) == [raised |-> error]
Return(value) == [value |-> value]
Raised(result) == "raised" \in DOMAIN result

\* What resolver.query(name, "A") can give.
AResults == {Raise(DNSError), Return(<<"192.0.2.1">>)}

\* What resolver.query(name, "AAAA") can give.
AAAAResults ==
    { Raise(DNSError),
      Return(<<>>),
      Return(<<"::ffff:192.0.2.1">>),
      Return(<<"::ffff:192.0.2.1", "2001:db8::1">>) }

---------------------------------------------------------------------------
(* Construction and ingestion *)

Host(name) ==
    [name |-> name, has_ipv4_address |-> None, has_ipv6_address |-> None]

Category(category) == [category |-> category, entities |-> <<>>]

CountryData(country_code) ==
    [country_code |-> country_code, categories |-> EmptyDict]

Entity_from_json(json_entity) ==
    IF \/ "main_host" \notin DOMAIN json_entity
       \/ "country" \notin DOMAIN json_entity
       \/ "category" \notin DOMAIN json_entity
    THEN Raise(KeyError)
    ELSE [country |-> json_entity.country,
          category |-> json_entity.category,
          name |-> IF "name" \in DOMAIN json_entity
                   THEN json_entity.name
                   ELSE json_entity.main_host,
          main_host |-> Host(json_entity.main_host),
          additional_hosts |->
              IF "additional_hosts" \in DOMAIN json_entity
              THEN [i \in DOMAIN json_entity.additional_hosts |->
                        Host(json_entity.additional_hosts[i])]
              ELSE <<>>,
          ipv6_ready |-> None]

\* register replacing the list where the code appends to it
Category_register_replace(self, entity) ==
    [self EXCEPT !.entities = <<entity>>]

Category_register(self, entity) ==
    [self EXCEPT !.entities = Append(@, entity)]

CountryData_register(self, entity) ==
    LET categories ==
            IF entity.category \notin DOMAIN self.categories
            THEN DictSet(self.categories, entity.category, Category(entity.category))
            ELSE self.categories
    IN  [self EXCEPT !.categories =
            [categories EXCEPT ![entity.category] = Category_register(@, entity)]]

\* One turn of the loop of extend_from_json, for a record from_json accepted.
Source_register(data, entity) ==
    LET countries ==
            IF entity.country \notin DOMAIN data
            THEN DictSet(data, entity.country, CountryData(entity.country))
            ELSE data
    IN  [countries EXCEPT ![entity.country] = CountryData_register(@, entity)]

\* extend_from_json making the country's node from the raw record, before
\* from_json has accepted it
RECURSIVE Source_extend_from_json_node_first(_, _)
Source_extend_from_json_node_first(data, json_entities) ==
    IF json_entities = <<>>
    THEN [countries_data |-> data, raised |-> None]
    ELSE LET json_entity == Head(json_entities)
             countries ==
                IF "country" \in DOMAIN json_entity /\ json_entity.country \notin DOMAIN data
                THEN DictSet(data, json_entity.country, CountryData(json_entity.country))
                ELSE data
             entity == Entity_from_json(json_entity)
         IN  IF Raised(entity)
             THEN [countries_data |-> countries, raised |-> KeyError]
             ELSE Source_extend_from_json_node_first(Source_register(countries, entity),
                                                     Tail(json_entities))

\* extend_from_json passing over a record from_json refuses and going on with
\* the next one
RECURSIVE Source_extend_from_json_skipping(_, _)
Source_extend_from_json_skipping(data, json_entities) ==
    IF json_entities = <<>>
    THEN [countries_data |-> data, raised |-> None]
    ELSE LET entity == Entity_from_json(Head(json_entities))
         IN  IF Raised(entity)
             THEN Source_extend_from_json_skipping(data, Tail(json_entities))
             ELSE Source_extend_from_json_skipping(Source_register(data, entity),
                                                   Tail(json_entities))

\* extend_from_json: the tree it leaves and the exception it raises, if any.
\* A KeyError of from_json ends the loop where it stands.
RECURSIVE Source_extend_from_json(_, _)
Source_extend_from_json(data, json_entities) ==
    IF json_entities = <<>>
    THEN [countries_data |-> data, raised |-> None]
    ELSE LET entity == Entity_from_json(Head(json_entities))
         IN  IF Raised(entity)
             THEN [countries_data |-> data, raised |-> KeyError]
             ELSE Source_extend_from_json(Source_register(data, entity),
                                          Tail(json_entities))

---------------------------------------------------------------------------
(* Places in the tree *)

\* Every entity of the tree, as resolve_all's generator walks it.
Entities(data) ==
    UNION { UNION { {<<c, k, i>> : i \in DOMAIN data[c].categories[k].entities}
                    : k \in DOMAIN data[c].categories }
            : c \in DOMAIN data }

EntityAt(data, e) == data[e[1]].categories[e[2]].entities[e[3]]

main_host(e) == <<e[1], e[2], e[3], 0>>

additional_hosts(data, e) ==
    {<<e[1], e[2], e[3], j>> : j \in DOMAIN EntityAt(data, e).additional_hosts}

HostsOf(data, e) == {main_host(e)} \cup additional_hosts(data, e)

Hosts(data) == UNION {HostsOf(data, e) : e \in Entities(data)}

EntityOf(h) == <<h[1], h[2], h[3]>>

HostAt(data, h) ==
    IF h[4] = 0
    THEN EntityAt(data, EntityOf(h)).main_host
    ELSE EntityAt(data, EntityOf(h)).additional_hosts[h[4]]

\* One Host object per hostname, shared by every record that names it: an
\* update of the host at h shows at every place of that name.
WithHost_by_name(data, h, host) ==
    [c \in DOMAIN data |->
        [data[c] EXCEPT !.categories =
            [k \in DOMAIN data[c].categories |->
                [data[c].categories[k] EXCEPT !.entities =
                    [i \in DOMAIN data[c].categories[k].entities |->
                        LET entity == data[c].categories[k].entities[i]
                        IN  [entity EXCEPT
                                !.main_host =
                                    IF entity.main_host.name = host.name
                                    THEN host
                                    ELSE entity.main_host,
                                !.additional_hosts =
                                    [j \in DOMAIN entity.additional_hosts |->
                                        IF entity.additional_hosts[j].name = host.name
                                        THEN host
                                        ELSE entity.additional_hosts[j]]]]]]]]

\* The tree with the Host object at h updated in place.
WithHost(data, h, host) ==
    IF h[4] = 0
    THEN [data EXCEPT ![h[1]].categories[h[2]].entities[h[3]].main_host = host]
    ELSE [data EXCEPT
            ![h[1]].categories[h[2]].entities[h[3]].additional_hosts[h[4]] = host]

---------------------------------------------------------------------------
(* Host.resolve and Entity.resolve, between their suspension points *)

startswith(s, prefix) ==
    /\ Len(s) >= Len(prefix)
    /\ SubSeq(s, 1, Len(prefix)) = prefix

IsValidIpv6(host) == ~startswith(host, "::ffff:")

\* valid_ipv6 without its filter: every returned host counts.
valid_ipv6_unfiltered(all_results) == all_results

valid_ipv6(all_results) == SelectSeq(all_results, IsValidIpv6)

\* Host.resolve with no except clause on its A query.
CatchesA_nothing(error) == FALSE

\* The except clauses of the two try statements: what each one catches.
CatchesA(error) == error = DNSError

\* Host.resolve with no except clause on its AAAA query.
CatchesAAAA_nothing(error) == FALSE

CatchesAAAA(error) == error = DNSError

\* The host once the await of the A query is over (try / except / else).
Host_resolve_A(self, result) ==
    IF Raised(result)
    THEN [self EXCEPT !.has_ipv4_address = False]
    ELSE [self EXCEPT !.has_ipv4_address = True]

\* observability.Metrics.get().count_<counter>()
Metrics_count(m, counter) == [m EXCEPT ![counter] = @ + 1]

\* The except clause of the A query without its counter
Metrics_A_success_only(m, result) ==
    IF Raised(result)
    THEN m
    ELSE Metrics_count(m, "ipv4_success")

Metrics_A(m, result) ==
    IF Raised(result)
    THEN Metrics_count(m, "ipv4_failure")
    ELSE Metrics_count(m, "ipv4_success")

\* The except clause of the AAAA query assigning the other flag
Host_resolve_AAAA_wrong_field(self, result) ==
    IF Raised(result)
    THEN [self EXCEPT !.has_ipv4_address = False]
    ELSE [self EXCEPT !.has_ipv6_address = bool(Len(valid_ipv6(result.value)) > 0)]

\* The host once the await of the AAAA query is over.
Host_resolve_AAAA(self, result) ==
    IF Raised(result)
    THEN [self EXCEPT !.has_ipv6_address = False]
    ELSE [self EXCEPT !.has_ipv6_address = bool(Len(valid_ipv6(result.value)) > 0)]

Metrics_AAAA(m, result) ==
    IF Raised(result)
    THEN Metrics_count(m, "ipv6_failure")
    ELSE Metrics_count(m, "ipv6_success")

\* any() where the code has all()
any_additional(self) ==
    \E i \in DOMAIN self.additional_hosts :
        self.additional_hosts[i].has_ipv6_address = True

\* all(host.has_ipv6_address for host in self.additional_hosts): None is falsy.
all_additional(self) ==
    \A i \in DOMAIN self.additional_hosts :
        self.additional_hosts[i].has_ipv6_address = True

\* Python's `x and y` gives x when x is falsy (None or False), else y.
Entity_ipv6_ready(self) ==
    IF self.main_host.has_ipv6_address = True
    THEN bool(all_additional(self))
    ELSE self.main_host.has_ipv6_address

\* The tree once Entity.resolve has passed its gather and assigned ipv6_ready.
Entity_finish(data, e) ==
    [data EXCEPT ![e[1]].categories[e[2]].entities[e[3]].ipv6_ready =
        Entity_ipv6_ready(EntityAt(data, e))]

\* The frame of a Host.resolve call that has not run yet; A and AAAA keep how
\* each await ended, AAAA's value being the local all_results.
Pending == [pending |-> TRUE]
NewCall == [pc |-> "scheduled", A |-> Pending, AAAA |-> Pending]

\* Entity.resolve handing the additional hosts to gather together with the
\* main host, instead of after it.
Entity_resolve_start_all(frames, data, e) ==
    [h \in DOMAIN frames \cup HostsOf(data, e) |->
        IF h = main_host(e) THEN [NewCall EXCEPT !.pc = "A"]
        ELSE IF h \in additional_hosts(data, e) THEN NewCall
        ELSE frames[h]]

\* The Host.resolve calls Entity.resolve enters before its first suspension:
\* main_host.resolve is awaited directly, so it runs up to its A query.
Entity_resolve_start(frames, data, e) ==
    DictSet(frames, main_host(e), [NewCall EXCEPT !.pc = "A"])

\* The additional hosts awaited one after the other instead of gathered: only
\* the first of them is started, the others wait for their turn.
Entity_resolve_gather_one_by_one(frames, data, e) ==
    [h \in DOMAIN frames \cup additional_hosts(data, e) |->
        IF h \in additional_hosts(data, e)
        THEN [NewCall EXCEPT !.pc = IF h[4] = 1 THEN "scheduled" ELSE "waiting"]
        ELSE frames[h]]

\* The tasks asyncio.gather makes for the additional hosts, none of them run yet.
Entity_resolve_gather(frames, data, e) ==
    [h \in DOMAIN frames \cup additional_hosts(data, e) |->
        IF h \in additional_hosts(data, e) THEN NewCall ELSE frames[h]]

\* A wait that ends with the first task done, where gather waits for all.
GatherDone_first(data, frames, e) ==
    \E h \in additional_hosts(data, e) : frames[h].pc = "done"

\* A wait that ends once every task of the gather has been started
GatherDone_started(data, frames, e) ==
    \A h \in additional_hosts(data, e) : frames[h].pc # "scheduled"

\* The entity's gather is over: each of its tasks is done.
GatherDone(data, frames, e) ==
    \A h \in additional_hosts(data, e) : frames[h].pc = "done"

\* gather hands the first exception of a task to the coroutine awaiting it.
GatherRaised(data, frames, e) ==
    \E h \in additional_hosts(data, e) : frames[h].pc = "raised"

\* A wait that ends with the first entity done, where gather waits for all.
AllDone_first(pcs) == \E e \in DOMAIN pcs : pcs[e] = "done"

\* A wait that ends once every task has been started, as when the tasks are
\* created and not awaited.
AllDone_started(pcs) == \A e \in DOMAIN pcs : pcs[e] # "scheduled"

\* resolve_all's gather is over: each entity's task is done.
AllDone(pcs) == \A e \in DOMAIN pcs : pcs[e] = "done"

AllRaised(pcs) == \E e \in DOMAIN pcs : pcs[e] = "raised"

\* A query that is sent a second time
resolver_query_twice(issued, h, type) ==
    DictSet(issued, <<h, type>>,
            (IF <<h, type>> \in DOMAIN issued THEN issued[<<h, type>>] ELSE 0) + 2)

\* resolver.query(self.name, type) is called for the host at h: one more query
\* of that type is on its way.
resolver_query(issued, h, type) ==
    DictSet(issued, <<h, type>>,
            (IF <<h, type>> \in DOMAIN issued THEN issued[<<h, type>>] ELSE 0) + 1)

\* datetime.datetime.now(), read off the clock
now(clock) == "T" \o ToString(clock)

---------------------------------------------------------------------------
(* The properties of Category *)

\* `is not None` where the code tests the truth value
truthy_not_none(x) == x # None

\* The truth value of an Optional[bool]
truthy(x) == x = True

\* sum(1 for entity in entities if entity.ipv6_ready)
RECURSIVE SumReady(_)
SumReady(entities) ==
    IF entities = <<>>
    THEN 0
    ELSE (IF truthy(Head(entities).ipv6_ready) THEN 1 ELSE 0) + SumReady(Tail(entities))

ready_count(self) == SumReady(self.entities)

total_count(self) == Len(self.entities)

\* Rounding that sends a tie upwards
RoundRatio_half_up(num, den) == (2 * num + den) \div (2 * den)

\* num / den rounded to an integer as float formatting rounds: to the nearest,
\* a tie going to the even neighbour.
RoundRatio(num, den) ==
    LET q == num \div den
        r == num % den
    IN  IF 2 * r > den \/ (2 * r = den /\ q % 2 = 1) THEN q + 1 ELSE q

\* f"{ready_ratio:.0%}" for ready_ratio = ready / total: the ratio times 100
\* with no decimal place, then the sign. For the totals of this model ready /
\* total is a tie only when it is a multiple of 1/8, which a float holds exactly.
FormatPercent(ready, total) == ToString(RoundRatio(100 * ready, total)) \o "%"

\* ready_percentage guarding the empty category with a percentage of its own
ready_percentage_guarded(self) ==
    IF total_count(self) = 0
    THEN Return("0%")
    ELSE Return(FormatPercent(ready_count(self), total_count(self)))

ready_percentage(self) ==
    IF total_count(self) = 0
    THEN Raise(ZeroDivisionError)
    ELSE Return(FormatPercent(ready_count(self), total_count(self)))

---------------------------------------------------------------------------
(* The state after construction: Source() with no resolve_all pending *)

NoMetrics ==
    [ipv4_success |-> 0, ipv4_failure |-> 0, ipv6_success |-> 0, ipv6_failure |-> 0]

Init ==
    /\ countries_data = EmptyDict
    /\ last_resolved = None
    /\ ingested = <<>>
    /\ all_pc = "idle"
    /\ calls = 0
    /\ entity_pc = EmptyDict
    /\ host_call = EmptyDict
    /\ metrics = NoMetrics
    /\ report = Pending
    /\ raised = None
    /\ queries = EmptyDict
    /\ stalled = {}
    /\ limit = None

---------------------------------------------------------------------------
(* The caller's operations *)

\* The Host.resolve calls made so far, each counted once by its A query.
Lookups(m) == m.ipv4_success + m.ipv4_failure

WellFormed(json_entity) ==
    {"main_host", "country", "category"} \subseteq DOMAIN json_entity

\* The records of a batch that come before its first malformed one.
RECURSIVE Accepted(_)
Accepted(json_entities) ==
    IF json_entities = <<>>
    THEN <<>>
    ELSE IF ~WellFormed(Head(json_entities))
    THEN <<>>
    ELSE <<Head(json_entities)>> \o Accepted(Tail(json_entities))

\* The Host objects from_json makes for a record.
HostsNamed(json_entity) ==
    1 + (IF "additional_hosts" \in DOMAIN json_entity
         THEN Len(json_entity.additional_hosts)
         ELSE 0)

\* The batches of at most n records the caller may feed to a tree that has room
\* for `room` more hosts: what follows a malformed record is never read, so it
\* can be any records.
RECURSIVE FittingBatches(_, _)
FittingBatches(n, room) ==
    IF n = 0
    THEN {<<>>}
    ELSE {<<>>} \cup
         UNION { IF ~WellFormed(json_entity)
                 THEN {<<json_entity>> \o rest : rest \in JsonSequences(n - 1)}
                 ELSE IF HostsNamed(json_entity) > room
                 THEN {}
                 ELSE {<<json_entity>> \o rest :
                        rest \in FittingBatches(n - 1, room - HostsNamed(json_entity))}
                 : json_entity \in JsonEntities }

Room(data) == MaxHosts - Cardinality(Hosts(data))

ExtendFromJson(json_entities) ==
    LET result == Source_extend_from_json(countries_data, json_entities)
    IN  /\ all_pc = "idle"
        /\ countries_data' = result.countries_data
        /\ raised' = result.raised
        /\ ingested' = ingested \o Accepted(json_entities)
        /\ UNCHANGED <<last_resolved, all_pc, calls, entity_pc, host_call,
                       metrics, report, queries, stalled, limit>>

\* resolve_all up to its await: one task per entity is handed to gather; with
\* no entity, gather's future is done and the call completes at once.
ResolveAll ==
    /\ all_pc = "idle"
    /\ calls < MaxResolveAll
    /\ Lookups(metrics) + Cardinality(Hosts(countries_data)) <= MaxLookups
    /\ calls' = calls + 1
    /\ raised' = None
    /\ queries' = EmptyDict
    /\ entity_pc' = [e \in Entities(countries_data) |-> "scheduled"]
    /\ IF Entities(countries_data) = {}
       THEN /\ last_resolved' = now(calls')
            /\ all_pc' = "idle"
       ELSE /\ all_pc' = "gather"
            /\ UNCHANGED last_resolved
    /\ UNCHANGED <<countries_data, ingested, host_call, metrics, report, stalled, limit>>

---------------------------------------------------------------------------
(* The event loop's steps. An exception no except clause catches ends the   *)
(* coroutine it is raised in and passes to the coroutine awaiting it.       *)

\* An entity's task runs for the first time: Entity.resolve enters
\* main_host.resolve, which issues the A query and suspends.
EntityStart(e) ==
    /\ all_pc = "gather"
    /\ entity_pc[e] = "scheduled"
    /\ entity_pc' = [entity_pc EXCEPT ![e] = "main"]
    /\ host_call' = Entity_resolve_start(host_call, countries_data, e)
    /\ queries' = resolver_query(queries, main_host(e), "A")
    /\ UNCHANGED <<countries_data, last_resolved, ingested, all_pc, calls,
                   metrics, report, raised, stalled, limit>>

\* The task gather made for an additional host runs for the first time.
HostStart(h) ==
    /\ all_pc = "gather"
    /\ host_call[h].pc = "scheduled"
    /\ host_call' = [host_call EXCEPT ![h].pc = "A"]
    /\ queries' = resolver_query(queries, h, "A")
    /\ UNCHANGED <<countries_data, last_resolved, ingested, all_pc, calls,
                   entity_pc, metrics, report, raised, stalled, limit>>

\* Host.resolve of h ends with an exception: awaited directly by Entity.resolve
\* for a main host, which ends with it too; kept by the host's task otherwise.
HostRaise(h) ==
    IF h[4] = 0
    THEN entity_pc' = [entity_pc EXCEPT ![EntityOf(h)] = "raised"]
    ELSE UNCHANGED entity_pc

\* The A query of h is over: the flag and the counter are set and the AAAA
\* query is issued.
AReturn(h, result) ==
    /\ all_pc = "gather"
    /\ host_call[h].pc = "A"
    /\ h \notin stalled
    /\ IF Raised(result) /\ ~CatchesA(result.raised)
       THEN /\ host_call' = [host_call EXCEPT ![h].pc = "raised", ![h].A = result]
            /\ HostRaise(h)
            /\ UNCHANGED <<countries_data, metrics, queries>>
       ELSE /\ countries_data' =
                    WithHost(countries_data, h,
                             Host_resolve_A(HostAt(countries_data, h), result))
            /\ metrics' = Metrics_A(metrics, result)
            /\ host_call' = [host_call EXCEPT ![h].pc = "AAAA", ![h].A = result]
            /\ queries' = resolver_query(queries, h, "AAAA")
            /\ UNCHANGED entity_pc
    /\ UNCHANGED <<last_resolved, ingested, all_pc, calls, report, raised, stalled, limit>>

\* The AAAA query of h is over and Host.resolve returns. For a main host the
\* entity's coroutine goes on in the same step: it hands the additional hosts
\* to gather and suspends, or, with none of them, gather's future is done and
\* it assigns ipv6_ready and ends.
AAAAReturn(h, result) ==
    LET e == EntityOf(h)
        data == WithHost(countries_data, h,
                         Host_resolve_AAAA(HostAt(countries_data, h), result))
        returned == [host_call EXCEPT ![h].pc = "done", ![h].AAAA = result]
    IN  /\ all_pc = "gather"
        /\ host_call[h].pc = "AAAA"
        /\ h \notin stalled
        /\ IF Raised(result) /\ ~CatchesAAAA(result.raised)
           THEN /\ host_call' = [host_call EXCEPT ![h].pc = "raised", ![h].AAAA = result]
                /\ HostRaise(h)
                /\ UNCHANGED <<countries_data, metrics>>
           ELSE /\ metrics' = Metrics_AAAA(metrics, result)
                /\ IF h[4] # 0
                   THEN /\ countries_data' = data
                        /\ host_call' = returned
                        /\ UNCHANGED entity_pc
                   ELSE IF additional_hosts(countries_data, e) = {}
                   THEN /\ countries_data' = Entity_finish(data, e)
                        /\ host_call' = returned
                        /\ entity_pc' = [entity_pc EXCEPT ![e] = "done"]
                   ELSE /\ countries_data' = data
                        /\ host_call' = Entity_resolve_gather(returned, countries_data, e)
                        /\ entity_pc' = [entity_pc EXCEPT ![e] = "gather"]
        /\ UNCHANGED <<last_resolved, ingested, all_pc, calls, report, raised,
                       queries, stalled, limit>>

\* The entity's gather wakes Entity.resolve, which assigns ipv6_ready.
EntityJoin(e) ==
    /\ all_pc = "gather"
    /\ entity_pc[e] = "gather"
    /\ GatherDone(countries_data, host_call, e) \/ GatherRaised(countries_data, host_call, e)
    /\ IF GatherRaised(countries_data, host_call, e)
       THEN /\ entity_pc' = [entity_pc EXCEPT ![e] = "raised"]
            /\ UNCHANGED countries_data
       ELSE /\ entity_pc' = [entity_pc EXCEPT ![e] = "done"]
            /\ countries_data' = Entity_finish(countries_data, e)
    /\ UNCHANGED <<last_resolved, ingested, all_pc, calls, host_call, metrics, report,
                   raised, queries, stalled, limit>>

\* resolve_all's gather wakes resolve_all: the timestamp is taken and the call
\* returns, which drops the tasks and their frames.
ResolveAllJoin ==
    /\ all_pc = "gather"
    /\ AllDone(entity_pc) \/ AllRaised(entity_pc)
    /\ IF AllRaised(entity_pc)
       THEN /\ all_pc' = "raised"
            /\ UNCHANGED <<last_resolved, entity_pc, host_call>>
       ELSE /\ last_resolved' = now(calls)
            /\ all_pc' = "idle"
            /\ entity_pc' = EmptyDict
            /\ host_call' = EmptyDict
    /\ UNCHANGED <<countries_data, ingested, calls, metrics, report, raised, queries,
                   stalled, limit>>

Resolution ==
    \/ \E e \in DOMAIN entity_pc : EntityStart(e)
    \/ \E e \in DOMAIN entity_pc : EntityJoin(e)
    \/ \E h \in DOMAIN host_call : HostStart(h)
    \/ \E h \in DOMAIN host_call : \E result \in AResults : AReturn(h, result)
    \/ \E h \in DOMAIN host_call : \E result \in AAAAResults : AAAAReturn(h, result)
    \/ ResolveAllJoin

Next ==
    \/ /\ all_pc = "idle"
       /\ \E json_entities \in FittingBatches(MaxBatch, Room(countries_data)) \ {<<>>} :
                ExtendFromJson(json_entities)
    \/ ResolveAll
    \/ Resolution

Spec == Init /\ [][Next]_vars

\* Every issued query ends and the event loop runs every task that can run.
FairSpec == Spec /\ WF_vars(Resolution)

---------------------------------------------------------------------------
(* A resolver that leaves one query unanswered: resolver.query has no       *)
(* timeout of its own and Host.resolve sets none, so the await of that      *)
(* query never ends.                                                        *)

\* The pending query of h will never be answered.
Stall(h) ==
    /\ all_pc = "gather"
    /\ stalled = {}
    /\ host_call[h].pc \in {"A", "AAAA"}
    /\ stalled' = {h}
    /\ UNCHANGED <<countries_data, last_resolved, ingested, all_pc, calls, entity_pc,
                   host_call, metrics, report, raised, queries, limit>>

StallNext ==
    \/ Next
    \/ \E h \in DOMAIN host_call : Stall(h)

\* Every other query ends and the event loop runs every task that can run.
StallSpec == Init /\ [][StallNext]_vars /\ WF_vars(Resolution)

---------------------------------------------------------------------------
(* resolve_all with a concurrency limit: the bounded fan-out the design     *)
(* notes ask a reimplementation to allow. It is resolve_all as it is, but   *)
(* an entity's task starts only while fewer than `limit` entities are being *)
(* resolved.                                                                *)

\* The limits tried; a limit of MaxLimit or more is no limit for the catalogs
\* of this model.
MaxLimit == 3

\* The entities whose resolution has started and not ended
Running(pcs) == {e \in DOMAIN pcs : pcs[e] \in {"main", "gather"}}

CappedInit ==
    /\ countries_data = EmptyDict
    /\ last_resolved = None
    /\ ingested = <<>>
    /\ all_pc = "idle"
    /\ calls = 0
    /\ entity_pc = EmptyDict
    /\ host_call = EmptyDict
    /\ metrics = NoMetrics
    /\ report = Pending
    /\ raised = None
    /\ queries = EmptyDict
    /\ stalled = {}
    /\ limit \in 1..MaxLimit

EntityStartCapped(e) ==
    /\ Cardinality(Running(entity_pc)) < limit
    /\ EntityStart(e)

CappedResolution ==
    \/ \E e \in DOMAIN entity_pc : EntityStartCapped(e)
    \/ \E e \in DOMAIN entity_pc : EntityJoin(e)
    \/ \E h \in DOMAIN host_call : HostStart(h)
    \/ \E h \in DOMAIN host_call : \E result \in AResults : AReturn(h, result)
    \/ \E h \in DOMAIN host_call : \E result \in AAAAResults : AAAAReturn(h, result)
    \/ ResolveAllJoin

CappedNext ==
    \/ /\ all_pc = "idle"
       /\ \E json_entities \in FittingBatches(MaxBatch, Room(countries_data)) \ {<<>>} :
                ExtendFromJson(json_entities)
    \/ ResolveAll
    \/ CappedResolution

\* Every issued query ends and the event loop runs every task that can run.
CappedSpec == CappedInit /\ [][CappedNext]_vars /\ WF_vars(CappedResolution)

---------------------------------------------------------------------------
(* Reading the properties of a Category built directly from its dataclass   *)
(* constructors: Category("bank", entities), held by a Source.               *)

SomeEntity(ready) ==
    [country |-> "it", category |-> "bank", name |-> "a.example",
     main_host |-> [name |-> "a.example",
                    has_ipv4_address |-> IF ready = None THEN None ELSE True,
                    has_ipv6_address |-> ready],
     additional_hosts |-> <<>>,
     ipv6_ready |-> ready]

SomeCategories ==
    UNION { { [category |-> "bank",
               entities |-> [i \in 1..n |-> SomeEntity(readies[i])]]
              : readies \in [1..n -> {None, True, False}] }
            : n \in 0..MaxEntities }

PctInit ==
    /\ \E category \in SomeCategories :
            countries_data =
                DictSet(EmptyDict, "it",
                        [country_code |-> "it",
                         categories |-> DictSet(EmptyDict, "bank", category)])
    /\ last_resolved = None
    /\ ingested = <<>>
    /\ all_pc = "idle"
    /\ calls = 0
    /\ entity_pc = EmptyDict
    /\ host_call = EmptyDict
    /\ metrics = NoMetrics
    /\ report = Pending
    /\ raised = None
    /\ queries = EmptyDict
    /\ stalled = {}
    /\ limit = None

\* The caller reads the three properties of a category.
ReadCategory(c, k) ==
    LET self == countries_data[c].categories[k]
    IN  /\ report' = [ready_count |-> ready_count(self),
                      total_count |-> total_count(self),
                      ready_percentage |-> ready_percentage(self)]
        /\ UNCHANGED <<countries_data, last_resolved, ingested, all_pc, calls,
                       entity_pc, host_call, metrics, raised, queries, stalled, limit>>

PctNext ==
    \E c \in DOMAIN countries_data :
        \E k \in DOMAIN countries_data[c].categories : ReadCategory(c, k)

PctSpec == PctInit /\ [][PctNext]_vars

---------------------------------------------------------------------------
(* The claims *)

Definite(x) == x \in {True, False}

HostDefinite(host) ==
    Definite(host.has_ipv4_address) /\ Definite(host.has_ipv6_address)

HostsDefinite(e) ==
    \A h \in HostsOf(countries_data, e) : HostDefinite(HostAt(countries_data, h))

Mapped(address) ==
    Len(address) >= 7 /\ SubSeq(address, 1, 7) = "::ffff:"

Succeeded(result) == "value" \in DOMAIN result

Genuine(result) ==
    IF Succeeded(result)
    THEN \E i \in DOMAIN result.value : ~Mapped(result.value[i])
    ELSE FALSE

TaskDone(e) == e \in DOMAIN entity_pc /\ entity_pc[e] = "done"

Issued(h) == h \in DOMAIN host_call /\ host_call[h].pc \in {"A", "AAAA", "done", "raised"}

CallDone(h) == h \in DOMAIN host_call /\ host_call[h].pc = "done"

\* C1: when Host.resolve returns, has_ipv4 is true iff the A query succeeded and
\* has_ipv6 is true iff the AAAA query succeeded with at least one address that
\* does not start with "::ffff:"; neither flag depends on the other query.
C1_FlagsFollowQueries ==
    \A h \in DOMAIN host_call :
        host_call[h].pc = "done" =>
            /\ HostAt(countries_data, h).has_ipv4_address = bool(Succeeded(host_call[h].A))
            /\ HostAt(countries_data, h).has_ipv6_address = bool(Genuine(host_call[h].AAAA))

\* A host whose A query failed and whose AAAA answer holds a genuine address,
\* next to a returned call whose AAAA answer held mapped addresses only.
C1_Witness ==
    /\ \E h \in DOMAIN host_call :
            /\ host_call[h].pc = "done"
            /\ ~Succeeded(host_call[h].A)
            /\ Genuine(host_call[h].AAAA)
            /\ HostAt(countries_data, h).has_ipv6_address = True
    /\ \E h \in DOMAIN host_call :
            /\ host_call[h].pc = "done"
            /\ Succeeded(host_call[h].AAAA)
            /\ host_call[h].AAAA.value # <<>>
            /\ ~Genuine(host_call[h].AAAA)
            /\ HostAt(countries_data, h).has_ipv6_address = False

\* C2: once Entity.resolve has completed, ipv6_ready is true or false, and it is
\* true iff the main host and every additional host have has_ipv6 true.
C2_ReadyIsConjunction ==
    \A e \in Entities(countries_data) :
        (TaskDone(e) \/ (all_pc = "idle" /\ EntityAt(countries_data, e).ipv6_ready # None)) =>
            /\ Definite(EntityAt(countries_data, e).ipv6_ready)
            /\ EntityAt(countries_data, e).ipv6_ready =
                    bool(\A h \in HostsOf(countries_data, e) :
                            HostAt(countries_data, h).has_ipv6_address = True)

\* A completed entity with two additional hosts, one of them without IPv6, and
\* a completed entity with no additional host that is ready.
C2_Witness ==
    /\ \E e \in Entities(countries_data) :
            /\ TaskDone(e)
            /\ Len(EntityAt(countries_data, e).additional_hosts) = 2
            /\ EntityAt(countries_data, e).main_host.has_ipv6_address = True
            /\ EntityAt(countries_data, e).additional_hosts[1].has_ipv6_address = True
            /\ EntityAt(countries_data, e).additional_hosts[2].has_ipv6_address = False
            /\ EntityAt(countries_data, e).ipv6_ready = False

\* C3: no lookup error leaves Host.resolve: no host call, entity task or
\* resolve_all call ever ends with an exception, a failed query leaves its flag
\* false, and every resolve_all call that has returned has set last_resolved.
C3_LookupErrorsAbsorbed ==
    /\ all_pc # "raised"
    /\ \A e \in DOMAIN entity_pc : entity_pc[e] # "raised"
    /\ \A h \in DOMAIN host_call :
            /\ host_call[h].pc # "raised"
            /\ (host_call[h].pc \in {"AAAA", "done"} /\ ~Succeeded(host_call[h].A)) =>
                    HostAt(countries_data, h).has_ipv4_address = False
            /\ (host_call[h].pc = "done" /\ ~Succeeded(host_call[h].AAAA)) =>
                    HostAt(countries_data, h).has_ipv6_address = False
    /\ all_pc = "idle" =>
            last_resolved = (IF calls = 0 THEN None ELSE "T" \o ToString(calls))

\* A returned resolve_all in which one entity's lookups both failed and another
\* entity came out ready.
C3_Witness ==
    /\ all_pc = "idle"
    /\ last_resolved # None
    /\ metrics.ipv4_failure > 0
    /\ metrics.ipv6_failure > 0
    /\ \E e \in Entities(countries_data) :
            /\ EntityAt(countries_data, e).main_host.has_ipv4_address = False
            /\ EntityAt(countries_data, e).main_host.has_ipv6_address = False
    /\ \E e \in Entities(countries_data) : EntityAt(countries_data, e).ipv6_ready = True

\* C4: no query of an additional host is issued before the main host's
\* Host.resolve has returned, with both of the main host's flags definite.
C4_MainHostFirst ==
    \A h \in DOMAIN host_call :
        (h[4] # 0 /\ Issued(h)) =>
            /\ CallDone(main_host(EntityOf(h)))
            /\ Succeeded(host_call[main_host(EntityOf(h))].A)
                    \/ Raised(host_call[main_host(EntityOf(h))].A)
            /\ Succeeded(host_call[main_host(EntityOf(h))].AAAA)
                    \/ Raised(host_call[main_host(EntityOf(h))].AAAA)
            /\ HostDefinite(HostAt(countries_data, main_host(EntityOf(h))))

\* Both additional hosts of an entity have a query outstanding.
C4_Witness ==
    \E e \in DOMAIN entity_pc :
        /\ entity_pc[e] = "gather"
        /\ Cardinality(additional_hosts(countries_data, e)) = 2
        /\ \A h \in additional_hosts(countries_data, e) : host_call[h].pc \in {"A", "AAAA"}

\* C5: whenever last_resolved is set, every entity of the tree has completed its
\* resolution: its task is done, its ipv6_ready is definite and so are the
\* flags of all its hosts.
C5_GlobalBarrier ==
    [][last_resolved' # last_resolved =>
            \A e \in Entities(countries_data) :
                /\ TaskDone(e)
                /\ Definite(EntityAt(countries_data', e).ipv6_ready)
                /\ \A h \in HostsOf(countries_data, e) :
                        HostDefinite(HostAt(countries_data', h))]_vars

\* A returned resolve_all over two entities.
C5_Witness ==
    /\ all_pc = "idle"
    /\ last_resolved # None
    /\ Cardinality(Entities(countries_data)) >= 2
    /\ \A e \in Entities(countries_data) :
            Definite(EntityAt(countries_data, e).ipv6_ready) /\ HostsDefinite(e)

\* C6: an entity whose ipv6_ready is not unknown has definite flags on all its
\* hosts, and an entity's task is done only when the Host.resolve call of each
\* of its hosts has returned.
C6_EntityBarrier ==
    \A e \in Entities(countries_data) :
        /\ EntityAt(countries_data, e).ipv6_ready # None => HostsDefinite(e)
        /\ TaskDone(e) => \A h \in HostsOf(countries_data, e) : CallDone(h)

\* An entity with additional hosts is done while resolve_all still waits for
\* another entity.
C6_Witness ==
    /\ all_pc = "gather"
    /\ \E e \in DOMAIN entity_pc : entity_pc[e] # "done"
    /\ \E e \in DOMAIN entity_pc :
            /\ entity_pc[e] = "done"
            /\ additional_hosts(countries_data, e) # {}
            /\ EntityAt(countries_data, e).ipv6_ready # None

AllResolved ==
    \A e \in Entities(countries_data) :
        Definite(EntityAt(countries_data, e).ipv6_ready) /\ HostsDefinite(e)

\* C7: when every query ends and the event loop is fair, a resolve_all call that
\* waits on its tasks eventually returns, with every flag and every ipv6_ready
\* definite and last_resolved set.
C7_ResolveAllCompletes ==
    (all_pc = "gather") ~> (all_pc = "idle" /\ last_resolved # None /\ AllResolved)

\* A second resolve_all has returned over a tree of several hosts.
C7_Witness ==
    /\ all_pc = "idle"
    /\ calls = 2
    /\ last_resolved = "T2"
    /\ Cardinality(Hosts(countries_data)) >= 2
    /\ AllResolved

NameOf(json_entity) ==
    IF "name" \in DOMAIN json_entity THEN json_entity.name ELSE json_entity.main_host

AdditionalOf(json_entity) ==
    IF "additional_hosts" \in DOMAIN json_entity
    THEN json_entity.additional_hosts
    ELSE <<>>

\* The entity is the one the record describes.
Describes(json_entity, entity) ==
    /\ entity.country = json_entity.country
    /\ entity.category = json_entity.category
    /\ entity.name = NameOf(json_entity)
    /\ entity.main_host.name = json_entity.main_host
    /\ Len(entity.additional_hosts) = Len(AdditionalOf(json_entity))
    /\ \A i \in DOMAIN entity.additional_hosts :
            entity.additional_hosts[i].name = AdditionalOf(json_entity)[i]

IngestedIn(c, k) ==
    SelectSeq(ingested, LAMBDA j : j.country = c /\ j.category = k)

\* C8: the entities of each (country, category) are the ingested records of that
\* country and category, in ingestion order, duplicates kept; every ingested
\* record has its node and the tree holds nothing else.
C8_TreeIsIngestionLog ==
    /\ \A i \in DOMAIN ingested :
            /\ ingested[i].country \in DOMAIN countries_data
            /\ ingested[i].category \in DOMAIN countries_data[ingested[i].country].categories
    /\ \A c \in DOMAIN countries_data :
            /\ countries_data[c].country_code = c
            /\ \A k \in DOMAIN countries_data[c].categories :
                    /\ countries_data[c].categories[k].category = k
                    /\ Len(countries_data[c].categories[k].entities) = Len(IngestedIn(c, k))
                    /\ \A i \in DOMAIN countries_data[c].categories[k].entities :
                            Describes(IngestedIn(c, k)[i],
                                      countries_data[c].categories[k].entities[i])
    /\ Cardinality(Entities(countries_data)) = Len(ingested)

\* A category holds two different entities in their ingestion order, the
\* second of them registered after the first was resolved.
C8_Witness ==
    /\ "it" \in DOMAIN countries_data
    /\ "bank" \in DOMAIN countries_data["it"].categories
    /\ Len(countries_data["it"].categories["bank"].entities) = 2
    /\ countries_data["it"].categories["bank"].entities[1].name = "B"
    /\ countries_data["it"].categories["bank"].entities[1].ipv6_ready # None
    /\ countries_data["it"].categories["bank"].entities[2].name = "a.example"
    /\ countries_data["it"].categories["bank"].entities[2].ipv6_ready = None

Categories ==
    UNION { {countries_data[c].categories[k] : k \in DOMAIN countries_data[c].categories}
            : c \in DOMAIN countries_data }

ReadyOnes(self) ==
    {i \in DOMAIN self.entities : self.entities[i].ipv6_ready = True}

\* C9: in every state ready_count is the number of entities whose ipv6_ready is
\* true and total_count the length of the entity sequence, so that
\* 0 <= ready_count <= total_count, and ready_count is 0 while no entity of the
\* category is resolved.
C9_Counts ==
    \A self \in Categories :
        /\ ready_count(self) = Cardinality(ReadyOnes(self))
        /\ total_count(self) = Len(self.entities)
        /\ 0 <= ready_count(self)
        /\ ready_count(self) <= total_count(self)
        /\ (\A i \in DOMAIN self.entities : self.entities[i].ipv6_ready = None) =>
                ready_count(self) = 0

\* During a resolution a category holds a ready entity, an entity that is not
\* ready and an unresolved one.
C9_Witness ==
    /\ all_pc = "gather"
    /\ \E self \in Categories :
            /\ \E i \in DOMAIN self.entities : self.entities[i].ipv6_ready = True
            /\ \E i \in DOMAIN self.entities : self.entities[i].ipv6_ready = False
            /\ \E i \in DOMAIN self.entities : self.entities[i].ipv6_ready = None
            /\ ready_count(self) = 1

Abs(x) == IF x < 0 THEN -x ELSE x

WasRead == "ready_percentage" \in DOMAIN report

\* The category the report was read from
TheCategory == CHOOSE self \in Categories : TRUE

C11_EmptyCategoryRaises ==
    [][Len(TheCategory.entities) = 0 =>
            /\ report'.ready_percentage = Raise(ZeroDivisionError)
            /\ ~Succeeded(report'.ready_percentage)
            /\ report'.total_count = 0
            /\ countries_data' = countries_data]_vars

\* The properties of an empty category were read.
C11_Witness ==
    /\ WasRead
    /\ TheCategory.entities = <<>>
    /\ Raised(report.ready_percentage)
    /\ report.ready_percentage.raised = ZeroDivisionError

\* How far a Host.resolve call has come
Rank(pc) ==
    CASE pc = "scheduled" -> 0
      [] pc = "A" -> 1
      [] pc = "AAAA" -> 2
      [] OTHER -> 3

\* C12 as stated: over any sequence of extend_from_json and resolve_all calls,
\* a has_ipv4, a has_ipv6 or an ipv6_ready that is definite is never written
\* again: it keeps its value for ever.
C12_WriteOnce ==
    [][/\ \A h \in Hosts(countries_data) :
            /\ Definite(HostAt(countries_data, h).has_ipv4_address) =>
                    HostAt(countries_data', h).has_ipv4_address =
                        HostAt(countries_data, h).has_ipv4_address
            /\ Definite(HostAt(countries_data, h).has_ipv6_address) =>
                    HostAt(countries_data', h).has_ipv6_address =
                        HostAt(countries_data, h).has_ipv6_address
       /\ \A e \in Entities(countries_data) :
            Definite(EntityAt(countries_data, e).ipv6_ready) =>
                EntityAt(countries_data', e).ipv6_ready =
                    EntityAt(countries_data, e).ipv6_ready]_vars

\* C12 amended: within one resolve_all call each flag is written once, has_ipv4
\* when the host's A query ends and has_ipv6 when its AAAA query ends, and
\* ipv6_ready once, when the entity's task ends; no call passes a query twice;
\* a definite value never becomes unknown again; and while resolve_all has been
\* called at most once a definite value is final. (A later resolve_all call
\* writes them all again.)
C12_WrittenOncePerCall ==
    [][/\ \A h \in Hosts(countries_data) :
            /\ Definite(HostAt(countries_data, h).has_ipv4_address) =>
                    Definite(HostAt(countries_data', h).has_ipv4_address)
            /\ Definite(HostAt(countries_data, h).has_ipv6_address) =>
                    Definite(HostAt(countries_data', h).has_ipv6_address)
            /\ HostAt(countries_data', h).has_ipv4_address #
                        HostAt(countries_data, h).has_ipv4_address =>
                    /\ h \in DOMAIN host_call
                    /\ host_call[h].pc = "A"
                    /\ host_call'[h].pc = "AAAA"
            /\ HostAt(countries_data', h).has_ipv6_address #
                        HostAt(countries_data, h).has_ipv6_address =>
                    /\ h \in DOMAIN host_call
                    /\ host_call[h].pc = "AAAA"
                    /\ host_call'[h].pc = "done"
            /\ (calls' <= 1 /\ HostDefinite(HostAt(countries_data, h))) =>
                    HostAt(countries_data', h) = HostAt(countries_data, h)
       /\ \A e \in Entities(countries_data) :
            /\ Definite(EntityAt(countries_data, e).ipv6_ready) =>
                    Definite(EntityAt(countries_data', e).ipv6_ready)
            /\ EntityAt(countries_data', e).ipv6_ready #
                        EntityAt(countries_data, e).ipv6_ready =>
                    /\ e \in DOMAIN entity_pc
                    /\ entity_pc[e] \in {"main", "gather"}
                    /\ entity_pc'[e] = "done"
            /\ (calls' <= 1 /\ Definite(EntityAt(countries_data, e).ipv6_ready)) =>
                    EntityAt(countries_data', e) = EntityAt(countries_data, e)
       /\ \A h \in DOMAIN host_call \cap DOMAIN host_call' :
            /\ Rank(host_call'[h].pc) >= Rank(host_call[h].pc)
            /\ Rank(host_call'[h].pc) <= Rank(host_call[h].pc) + 1
       /\ last_resolved' # last_resolved =>
            \A h \in Hosts(countries_data) : CallDone(h)]_vars

\* A second resolve_all call has written the flags of a host the first call
\* had resolved and waits for the AAAA query of another.
C12_Witness ==
    /\ calls = 2
    /\ all_pc = "gather"
    /\ \E h \in DOMAIN host_call : host_call[h].pc = "done"
    /\ \E h \in DOMAIN host_call :
            /\ host_call[h].pc = "AAAA"
            /\ HostAt(countries_data, h).has_ipv6_address # None

\* The Host objects and the ipv6_ready fields a step writes, and the
\* Host.resolve calls that move in it
WrittenHosts ==
    {h \in Hosts(countries_data) : HostAt(countries_data', h) # HostAt(countries_data, h)}

WrittenEntities ==
    {e \in Entities(countries_data) :
        EntityAt(countries_data', e).ipv6_ready # EntityAt(countries_data, e).ipv6_ready}

MovedCalls ==
    {h \in DOMAIN host_call \cap DOMAIN host_call' : host_call'[h].pc # host_call[h].pc}

\* C13: every write of a resolve_all goes to one object and comes from the one
\* task that owns it. A step writes at most one Host, and it is a step of that
\* host's own Host.resolve call, run by the entity's task for the main host (the
\* entity is then inside main_host.resolve) and by the host's own gather task
\* for an additional host (the entity is then suspended in its gather); a step
\* writes at most one ipv6_ready, and it is the step that ends that entity's
\* task; a write never reaches another Host of the same name nor another
\* entity, and it leaves the host's name alone.
C13_OneWriterEach ==
    [][/\ Cardinality(WrittenHosts) <= 1
       /\ Cardinality(WrittenEntities) <= 1
       /\ Cardinality(MovedCalls) <= 1
       /\ \A h \in WrittenHosts :
            /\ all_pc = "gather"
            /\ h \in MovedCalls
            /\ host_call[h].pc \in {"A", "AAAA"}
            /\ entity_pc[EntityOf(h)] = (IF h[4] = 0 THEN "main" ELSE "gather")
            /\ HostAt(countries_data', h).name = HostAt(countries_data, h).name
            /\ \A e \in WrittenEntities : e = EntityOf(h) /\ h[4] = 0
       /\ \A e \in WrittenEntities :
            /\ all_pc = "gather"
            /\ entity_pc[e] \in {"main", "gather"}
            /\ entity_pc'[e] = "done"
       /\ \A e \in Entities(countries_data) :
            \A f \in {"country", "category", "name"} :
                EntityAt(countries_data', e)[f] = EntityAt(countries_data, e)[f]]_vars

\* Two Host objects of one hostname, resolved in the same resolve_all, hold
\* different flags: in two entities,
SameNameAcrossEntities ==
    \E h1 \in DOMAIN host_call : \E h2 \in DOMAIN host_call :
        /\ EntityOf(h1) # EntityOf(h2)
        /\ HostAt(countries_data, h1).name = HostAt(countries_data, h2).name
        /\ HostAt(countries_data, h1).has_ipv4_address = True
        /\ HostAt(countries_data, h2).has_ipv4_address = False

\* or as an entity's main host and one of its additional hosts.
C13_Witness ==
    \E h1 \in DOMAIN host_call : \E h2 \in DOMAIN host_call :
        /\ EntityOf(h1) = EntityOf(h2)
        /\ h1[4] = 0
        /\ h2[4] # 0
        /\ HostAt(countries_data, h1).name = HostAt(countries_data, h2).name
        /\ HostAt(countries_data, h1).has_ipv4_address = True
        /\ HostAt(countries_data, h1).has_ipv6_address = True
        /\ HostAt(countries_data, h2).has_ipv4_address = False
        /\ HostAt(countries_data, h2).has_ipv6_address = None

\* The host whose query the resolver leaves unanswered
TheStalled == CHOOSE h \in stalled : TRUE

Siblings(h) == additional_hosts(countries_data, EntityOf(h)) \ {h}

\* The task of entity e, or the Host.resolve call of h, can take its next step.
CanStart(e) == ENABLED EntityStart(e)

CanGoOn(h) ==
    \/ ENABLED HostStart(h)
    \/ ENABLED (\E result \in AResults : AReturn(h, result))
    \/ ENABLED (\E result \in AAAAResults : AAAAReturn(h, result))

\* C14: nothing but its own pending query and the entity's main host holds a
\* lookup back. During a resolve_all every entity task that has not run can
\* run, whatever the other entities wait for, and every Host.resolve call that
\* exists and has not returned can go on unless its own query is the stalled
\* one: the additional hosts of an entity all have their call from the moment
\* the main host has returned. So when one query is never answered, every
\* other entity still completes with a definite ipv6_ready, and every sibling
\* of a stalled additional host still has its call return.
C14_EagerFanOut ==
    /\ [](all_pc = "gather" =>
            /\ \A e \in DOMAIN entity_pc : entity_pc[e] = "scheduled" => CanStart(e)
            /\ \A h \in DOMAIN host_call :
                    (host_call[h].pc # "done" /\ h \notin stalled) => CanGoOn(h)
            /\ \A e \in DOMAIN entity_pc :
                    entity_pc[e] = "gather" =>
                        additional_hosts(countries_data, e) \subseteq DOMAIN host_call)
    /\ (stalled # {}) ~>
            /\ stalled # {}
            /\ \A e \in DOMAIN entity_pc \ {EntityOf(TheStalled)} :
                    /\ TaskDone(e)
                    /\ Definite(EntityAt(countries_data, e).ipv6_ready)
            /\ TheStalled[4] # 0 => \A h \in Siblings(TheStalled) : CallDone(h)

\* The first lookups of two entities are outstanding together; one of them is
\* never answered and the other entity has completed.
C14_Witness ==
    /\ stalled # {}
    /\ \E e \in DOMAIN entity_pc \ {EntityOf(TheStalled)} :
            /\ TaskDone(e)
            /\ Definite(EntityAt(countries_data, e).ipv6_ready)
    /\ TheStalled[4] = 0
    /\ host_call[TheStalled].pc = "A"

\* C15: there is no timeout and no partial completion. Once a query is left
\* unanswered it stays pending; resolve_all stays in its gather and
\* last_resolved is never assigned again; the entity of the stalled host never
\* completes and its ipv6_ready keeps the value it had; in a first resolve_all
\* both are still unset. Every other entity all the same ends with definite
\* flags and a definite ipv6_ready.
C15_StalledLookupStallsAll ==
    /\ [](stalled # {} =>
            /\ all_pc = "gather"
            /\ host_call[TheStalled].pc \in {"A", "AAAA"}
            /\ ~TaskDone(EntityOf(TheStalled))
            /\ calls = 1 =>
                    /\ last_resolved = None
                    /\ EntityAt(countries_data, EntityOf(TheStalled)).ipv6_ready = None)
    /\ [][stalled # {} =>
            /\ stalled' = stalled
            /\ last_resolved' = last_resolved
            /\ calls' = calls
            /\ EntityAt(countries_data', EntityOf(TheStalled)).ipv6_ready =
                    EntityAt(countries_data, EntityOf(TheStalled)).ipv6_ready]_vars
    /\ (stalled # {}) ~>
            [](/\ stalled # {}
               /\ all_pc = "gather"
               /\ \A e \in Entities(countries_data) \ {EntityOf(TheStalled)} :
                    HostsDefinite(e) /\ Definite(EntityAt(countries_data, e).ipv6_ready))

\* In a first resolve_all over two entities the AAAA query of an additional
\* host is never answered: the other entity is done, this one is not.
C15_Witness ==
    /\ stalled # {}
    /\ calls = 1
    /\ last_resolved = None
    /\ TheStalled[4] # 0
    /\ host_call[TheStalled].pc = "AAAA"
    /\ EntityAt(countries_data, EntityOf(TheStalled)).ipv6_ready = None
    /\ Cardinality(Entities(countries_data)) = 2
    /\ \A e \in Entities(countries_data) \ {EntityOf(TheStalled)} :
            /\ TaskDone(e)
            /\ HostsDefinite(e)
            /\ Definite(EntityAt(countries_data, e).ipv6_ready)

Queried(h, type) == IF <<h, type>> \in DOMAIN queries THEN queries[<<h, type>>] ELSE 0

\* C16: in one resolve_all no host is queried twice for a record type. The A
\* query of a host has been sent once when its Host.resolve call has started
\* and the AAAA query once when the A query has ended, with an answer or with
\* an error alike; an error of either query sends nothing again; and when
\* resolve_all returns, every host of the tree has been queried exactly once
\* for A and exactly once for AAAA.
C16_NoRetries ==
    /\ [](/\ \A key \in DOMAIN queries : queries[key] = 1
           /\ \A h \in DOMAIN host_call :
                /\ Queried(h, "A") = (IF Rank(host_call[h].pc) >= 1 THEN 1 ELSE 0)
                /\ Queried(h, "AAAA") = (IF Rank(host_call[h].pc) >= 2 THEN 1 ELSE 0)
                /\ (Raised(host_call[h].A) /\ host_call[h].pc # "A") =>
                        Queried(h, "A") = 1 /\ Queried(h, "AAAA") = 1
                /\ Raised(host_call[h].AAAA) =>
                        Queried(h, "A") = 1 /\ Queried(h, "AAAA") = 1)
    /\ [][last_resolved' # last_resolved =>
            /\ DOMAIN queries' = Hosts(countries_data) \X {"A", "AAAA"}
            /\ \A key \in DOMAIN queries' : queries'[key] = 1]_vars

\* A resolve_all over several hosts has returned; before that, one host's A
\* and AAAA queries had both failed.
C16_Witness ==
    /\ all_pc = "idle"
    /\ last_resolved # None
    /\ Cardinality(DOMAIN queries) >= 4
    /\ metrics.ipv4_failure >= 1
    /\ metrics.ipv6_failure >= 1
    /\ \E h \in Hosts(countries_data) :
            /\ HostAt(countries_data, h).has_ipv4_address = False
            /\ Queried(h, "A") = 1
            /\ Queried(h, "AAAA") = 1

\* What the outcomes of a host's two queries make of its flags
FlagsOf(frame) ==
    [has_ipv4_address |-> bool(Succeeded(frame.A)),
     has_ipv6_address |-> bool(Genuine(frame.AAAA))]

\* C17: the results do not depend on the schedule. Under every interleaving of
\* the lookups, and under every limit on the entities resolved at a time (1,
\* 2, or none), when resolve_all returns every host of the tree has been
\* queried and holds the flags its own two outcomes make, whatever the order
\* the outcomes came in, and every entity's ipv6_ready is the conjunction over
\* its hosts of 'the AAAA outcome holds a genuine address'; the limit is kept
\* to; and every resolve_all call that waits does return, with every entity
\* resolved and last_resolved set: the completion is all-or-nothing.
C17_ScheduleIndependent ==
    /\ [][last_resolved' # last_resolved =>
            /\ \A h \in Hosts(countries_data) :
                    /\ CallDone(h)
                    /\ HostAt(countries_data', h).has_ipv4_address =
                            FlagsOf(host_call[h]).has_ipv4_address
                    /\ HostAt(countries_data', h).has_ipv6_address =
                            FlagsOf(host_call[h]).has_ipv6_address
            /\ \A e \in Entities(countries_data) :
                    EntityAt(countries_data', e).ipv6_ready =
                        bool(\A h \in HostsOf(countries_data, e) :
                                Genuine(host_call[h].AAAA))]_vars
    /\ [](Cardinality(Running(entity_pc)) <= limit)
    /\ (all_pc = "gather") ~> (all_pc = "idle" /\ last_resolved # None /\ AllResolved)

\* With a limit of one, a resolve_all over three entities has returned.
C17_Witness ==
    /\ limit = 1
    /\ all_pc = "idle"
    /\ last_resolved # None
    /\ Cardinality(Entities(countries_data)) = 3
    /\ AllResolved
    /\ \E e \in Entities(countries_data) : EntityAt(countries_data, e).ipv6_ready = True
    /\ \E e \in Entities(countries_data) : EntityAt(countries_data, e).ipv6_ready = False

\* The entities a tree holds for a country and a category, none if it has no
\* such node
EntitiesIn(data, c, k) ==
    IF c \in DOMAIN data /\ k \in DOMAIN data[c].categories
    THEN data[c].categories[k].entities
    ELSE <<>>

CategoriesIn(data, c) == IF c \in DOMAIN data THEN DOMAIN data[c].categories ELSE {}

RecordsFor(json_entities, c, k) ==
    SelectSeq(json_entities, LAMBDA j : j.country = c /\ j.category = k)

Unresolved(entity) ==
    /\ entity.ipv6_ready = None
    /\ entity.main_host.has_ipv4_address = None
    /\ entity.main_host.has_ipv6_address = None
    /\ \A j \in DOMAIN entity.additional_hosts :
            /\ entity.additional_hosts[j].has_ipv4_address = None
            /\ entity.additional_hosts[j].has_ipv6_address = None

\* The tree `after` is the tree `before` with the records registered, each as a
\* new unresolved entity at the end of its category, and nothing else added or
\* changed.
ExtendedBy(before, after, json_entities) ==
    /\ DOMAIN after =
            DOMAIN before \cup {json_entities[i].country : i \in DOMAIN json_entities}
    /\ \A c \in DOMAIN after :
            /\ DOMAIN after[c].categories =
                    CategoriesIn(before, c) \cup
                    {json_entities[i].category :
                        i \in {n \in DOMAIN json_entities : json_entities[n].country = c}}
            /\ \A k \in DOMAIN after[c].categories :
                    LET old == EntitiesIn(before, c, k)
                        new == RecordsFor(json_entities, c, k)
                        listed == after[c].categories[k].entities
                    IN  /\ Len(listed) = Len(old) + Len(new)
                        /\ \A i \in DOMAIN old : listed[i] = old[i]
                        /\ \A i \in DOMAIN new :
                                /\ Describes(new[i], listed[Len(old) + i])
                                /\ Unresolved(listed[Len(old) + i])

\* C18: a record without main_host, country or category makes
\* extend_from_json raise KeyError at that record, with no query sent. For every
\* tree the Source can hold and every batch: the call raises iff the batch has
\* such a record, and the tree it leaves is the old tree extended by the
\* records before the first such record, and by nothing else: the failing
\* record adds no entity, no country and no category, the records after it
\* are not ingested. A call that raised has touched neither the flags, the
\* counters nor the queries.
C18_FailFastIngestion ==
    /\ [](all_pc = "idle" =>
            \A json_entities \in JsonSequences(MaxBatch) :
                LET result == Source_extend_from_json(countries_data, json_entities)
                IN  /\ result.raised =
                            (IF \E i \in DOMAIN json_entities : ~WellFormed(json_entities[i])
                             THEN KeyError
                             ELSE None)
                    /\ ExtendedBy(countries_data, result.countries_data,
                                  Accepted(json_entities)))
    /\ [][raised' = KeyError =>
            /\ all_pc = "idle" /\ all_pc' = "idle"
            /\ metrics' = metrics
            /\ queries' = queries
            /\ \E n \in 0..(MaxBatch - 1) :
                    /\ Len(ingested') = Len(ingested) + n
                    /\ ExtendedBy(countries_data, countries_data',
                                  SubSeq(ingested', Len(ingested) + 1, Len(ingested')))]_vars

\* An extend_from_json call into a tree that was resolved before has raised
\* KeyError; the tree holds the two records accepted so far and no node for
\* the countries the refused records name.
C18_Witness ==
    /\ raised = KeyError
    /\ calls = 1
    /\ Len(ingested) = 2
    /\ Cardinality(Entities(countries_data)) = 2
    /\ "de" \notin DOMAIN countries_data
    /\ \E e \in Entities(countries_data) : EntityAt(countries_data, e).ipv6_ready # None
    /\ \E e \in Entities(countries_data) : Unresolved(EntityAt(countries_data, e))

\* C19: a Source fed by extend_from_json alone, refused records included, has
\* no empty node: every CountryData holds a Category, every Category holds an
\* Entity, so total_count is at least 1 and ready_percentage returns a
\* percentage for every category of the tree, never ZeroDivisionError.
C19_NoEmptyNode ==
    /\ \A c \in DOMAIN countries_data :
            /\ DOMAIN countries_data[c].categories # {}
            /\ \A k \in DOMAIN countries_data[c].categories :
                    countries_data[c].categories[k].entities # <<>>
    /\ \A self \in Categories :
            /\ total_count(self) >= 1
            /\ ~Raised(ready_percentage(self))
            /\ Succeeded(ready_percentage(self))

\* After a refused record, the tree has two countries, each with a category,
\* one of them resolved to "100%" and the other not resolved and at "0%".
C19_Witness ==
    /\ raised = KeyError
    /\ Cardinality(DOMAIN countries_data) = 2
    /\ Cardinality(Categories) = 2
    /\ \E self \in Categories : ready_percentage(self) = Return("100%")
    /\ \E self \in Categories :
            /\ ready_percentage(self) = Return("0%")
            /\ \A i \in DOMAIN self.entities : self.entities[i].ipv6_ready = None

\* The hosts whose has_ipv4 / has_ipv6 is true
WithIpv4 == {h \in Hosts(countries_data) : HostAt(countries_data, h).has_ipv4_address = True}

WithIpv6 == {h \in Hosts(countries_data) : HostAt(countries_data, h).has_ipv6_address = True}

Resolved == {h \in Hosts(countries_data) : HostDefinite(HostAt(countries_data, h))}

Total(m) == m.ipv4_success + m.ipv4_failure + m.ipv6_success + m.ipv6_failure

\* C20: the counters only grow, one at a time and by one: the step that ends a
\* host's A query adds one to ipv4_success or to ipv4_failure and the step that
\* ends its AAAA query, and with it Host.resolve, adds one to ipv6_success or
\* to ipv6_failure, success for an answer and failure for an error; no other
\* step counts. So whenever no resolve_all is pending the ipv4 pair and the
\* ipv6 pair have the same sum, and after the first resolve_all that sum is the
\* number of hosts resolved, ipv4_success the number of hosts with has_ipv4
\* true, and ipv6_success at least the number of hosts with has_ipv6 true.
C20_MetricsAccounting ==
    /\ [][/\ \A counter \in DOMAIN metrics : metrics'[counter] >= metrics[counter]
           /\ Total(metrics') <= Total(metrics) + 1
           /\ \A h \in MovedCalls :
                /\ (host_call[h].pc = "A" /\ host_call'[h].pc = "AAAA") =>
                        /\ metrics'.ipv4_success + metrics'.ipv4_failure =
                                metrics.ipv4_success + metrics.ipv4_failure + 1
                        /\ metrics'.ipv4_success = metrics.ipv4_success +
                                (IF Succeeded(host_call'[h].A) THEN 1 ELSE 0)
                /\ (host_call[h].pc = "AAAA" /\ host_call'[h].pc = "done") =>
                        /\ metrics'.ipv6_success + metrics'.ipv6_failure =
                                metrics.ipv6_success + metrics.ipv6_failure + 1
                        /\ metrics'.ipv6_success = metrics.ipv6_success +
                                (IF Succeeded(host_call'[h].AAAA) THEN 1 ELSE 0)
           /\ MovedCalls = {} => metrics' = metrics]_vars
    /\ [](all_pc = "idle" =>
            /\ metrics.ipv4_success + metrics.ipv4_failure =
                    metrics.ipv6_success + metrics.ipv6_failure
            /\ calls = 1 =>
                    /\ metrics.ipv4_success + metrics.ipv4_failure = Cardinality(Resolved)
                    /\ metrics.ipv4_success = Cardinality(WithIpv4)
                    /\ metrics.ipv6_success >= Cardinality(WithIpv6))
    /\ [](metrics.ipv4_success + metrics.ipv4_failure >=
                metrics.ipv6_success + metrics.ipv6_failure)

\* A first resolve_all over three hosts has returned: one A query failed, all
\* three AAAA queries were answered and only one host has IPv6.
C20_Witness ==
    /\ all_pc = "idle"
    /\ calls = 1
    /\ last_resolved # None
    /\ Cardinality(Resolved) = 3
    /\ metrics.ipv4_failure = 1
    /\ metrics.ipv4_success = 2
    /\ metrics.ipv6_success = 3
    /\ metrics.ipv6_failure = 0
    /\ Cardinality(WithIpv6) = 1

====
